---- MODULE Spec2Model ----
(***************************************************************************)
(* Model of the HTTP boundary of the Hausa-English translation service     *)
(* (src/app.py) together with the translation engine it delegates to.      *)
(* The engine (module `translator`: HausaEnglishTranslator and             *)
(* TranslationResult) is modelled from spec.md sections 3 and 4; the       *)
(* handlers are modelled from src/app.py.                                  *)
(***************************************************************************)
EXTENDS Integers, Sequences, FiniteSets, TLC

VARIABLES
    translator,    \* the module global `translator` (app.py:37)
    started,       \* whether the startup hook has already run
    history,       \* the engine's History Ledger, oldest entry first
    clock,         \* the engine's time source: ticks when a call completes translations
    request,       \* the request the last handler was called with
    engine_calls,  \* the engine methods the last handler invoked, in order
    raised,        \* the exception raised inside the last handler's try body
    fault,         \* the item at which the strategy malfunctioned in the last
                   \* engine call (0: it did not)
    response       \* what the last handler handed back to the framework

vars == <<translator, started, history, clock, request, engine_calls, raised, fault, response>>

-----------------------------------------------------------------------------
(* Bounds of the model *)

\* number of engine calls that record translations
MaxClock == 2

(* Program constants *)

\* app.py:136  len(request.texts) > 100
MaxBatch == 100
\* app.py:177  limit > 100
MaxLimit == 100
\* spec.md 4.3: the ledger's own hard ceiling on `recent`
LedgerCeiling == 100

-----------------------------------------------------------------------------
(* Inputs *)

Texts == {"", "hello", "xyz"}

\* (source_lang, target_lang): the default pair given in upper case, and a
\* pair with an unknown source code and a missing target code
LangPairs == {<<"EN", "ha">>, <<"fr", "">>}

LongTexts(n) == [i \in 1..n |-> IF i % 2 = 1 THEN "hello" ELSE "xyz"]

LongWithBlank(n, k) == [i \in 1..n |-> IF i = k THEN "" ELSE LongTexts(n)[i]]

\* the empty batch, distinct and repeated items in both orders, a blank item
\* first and last
ShortBatches ==
    {<<>>, <<"hello", "xyz">>, <<"xyz", "hello">>, <<"xyz", "xyz">>,
     <<"", "hello">>, <<"hello", "">>}

\* batches at and just above the boundary's ceiling
LongBatches ==
    {LongTexts(MaxBatch), LongTexts(MaxBatch + 1), LongWithBlank(MaxBatch, MaxBatch)}

\* the item of a batch at which the strategy malfunctions (0: none)
FaultItems == 0..2

BatchTexts == ShortBatches \cup LongBatches

Limits == (-1 .. MaxClock + 1) \cup {50, MaxLimit - 1, MaxLimit, MaxLimit + 1, 1000}

-----------------------------------------------------------------------------
(* Exceptions and handler outcomes *)

NoException == [type |-> "none", status_code |-> 0, detail |-> <<>>]

ValueError(msg) == [type |-> "ValueError", status_code |-> 0, detail |-> msg]

TranslationFailedError(msg) ==
    [type |-> "TranslationFailedError", status_code |-> 0, detail |-> msg]

HTTPException(status, detail) ==
    [type |-> "HTTPException", status_code |-> status, detail |-> detail]

\* str(e): the message of an engine exception
Str(exc) == exc.detail

\* `except ValueError` matches ValueError and its subclasses only; neither
\* HTTPException nor the engine's internal failure is one
IsValueError(exc) == exc.type = "ValueError"

NoRequest == [op |-> "none"]

NoResponse == [kind |-> "none", status_code |-> 0]

-----------------------------------------------------------------------------
(* The translation engine: HausaEnglishTranslator (spec.md 3, 4.1 - 4.4)     *)

SupportedLanguages == {"en", "ha"}

\* 4.1: codes are case-insensitive and normalised to lower case
Lower(code) ==
    CASE code = "EN" -> "en"
      [] code = "HA" -> "ha"
      [] code = "FR" -> "fr"
      [] OTHER -> code

\* 4.1: validate(source_lang, target_lang); the error names the invalid code(s)
validate(source_lang, target_lang) ==
    LET s == Lower(source_lang)
        t == Lower(target_lang)
        bad == SelectSeq(<<s, t>>, LAMBDA c : c \notin SupportedLanguages)
    IN  IF bad = <<>>
        THEN [ok |-> TRUE, source |-> s, target |-> t, exc |-> NoException]
        ELSE [ok |-> FALSE, source |-> s, target |-> t,
              exc |-> ValueError(<<"Unsupported language: ">> \o bad)]

\* 4.2: the reference lookup table, keyed by (phrase, target language)
LookupTable == [en_ha |-> [hello |-> "sannu"], ha_en |-> [sannu |-> "hello"]]

Known(text, source, target) ==
    \/ source = "en" /\ target = "ha" /\ text = "hello"
    \/ source = "ha" /\ target = "en" /\ text = "sannu"

\* 4.2: render(text, source, target) -> (text, confidence, model); confidence
\* is kept in tenths (10 is 1.0, 1 is the low floor 0.1)
render(text, source, target) ==
    IF source = target
    THEN [text |-> text, confidence |-> 10, model |-> "identity"]
    ELSE IF Known(text, source, target)
    THEN [text |-> IF target = "ha" THEN LookupTable.en_ha.hello
                                    ELSE LookupTable.ha_en.sannu,
          confidence |-> 10, model |-> "dictionary-v1"]
    ELSE [text |-> text, confidence |-> 1, model |-> "dictionary-v1"]

\* 4.2: text must be non-empty after trimming
IsBlank(text) == text \in {"", " "}

\* 3: the TranslationResult of one completed translation
TranslationResult(text, source, target, now) ==
    LET r == render(text, source, target)
    IN  [original_text |-> text,
         translated_text |-> r.text,
         source_language |-> source,
         target_language |-> target,
         confidence_score |-> r.confidence,
         model_used |-> r.model,
         timestamp |-> now]

\* 4.2 applied to one text with validated languages; `malfunction` is the
\* strategy failing internally
Strategy(text, source, target, malfunction, now) ==
    IF IsBlank(text)
    THEN [ok |-> FALSE, exc |-> ValueError(<<"Text cannot be empty">>)]
    ELSE IF malfunction
    THEN [ok |-> FALSE, exc |-> TranslationFailedError(<<"Strategy failure">>)]
    ELSE [ok |-> TRUE, exc |-> NoException,
          result |-> TranslationResult(text, source, target, now)]

\* HausaEnglishTranslator.translate: Validator -> Strategy -> Ledger (append)
EngineTranslate(ledger, text, source_lang, target_lang, malfunction, now) ==
    LET v == validate(source_lang, target_lang)
        s == Strategy(text, v.source, v.target, malfunction, now)
    IN  IF ~v.ok THEN [ok |-> FALSE, exc |-> v.exc, ledger |-> ledger]
        ELSE IF ~s.ok THEN [ok |-> FALSE, exc |-> s.exc, ledger |-> ledger]
        ELSE [ok |-> TRUE, exc |-> NoException, value |-> s.result,
              ledger |-> Append(ledger, s.result)]

\* 4.4: index of the first item that fails (0 when none does); `failAt` is
\* the item at which the strategy malfunctions (0: it does not)
FirstFailure(texts, failAt) ==
    LET failing == {i \in 1..Len(texts) : IsBlank(texts[i]) \/ i = failAt}
    IN  IF failing = {} THEN 0
        ELSE CHOOSE i \in failing : \A j \in failing : i <= j

\* HausaEnglishTranslator.batch_translate: 4.2 per item in input order,
\* fail-fast and atomic on the first failing item
EngineBatch(ledger, texts, source_lang, target_lang, failAt, now) ==
    LET v == validate(source_lang, target_lang)
        k == FirstFailure(texts, failAt)
        results == [i \in 1..Len(texts) |->
                       TranslationResult(texts[i], v.source, v.target, now)]
    IN  IF ~v.ok THEN [ok |-> FALSE, exc |-> v.exc, ledger |-> ledger]
        ELSE IF k # 0
        THEN [ok |-> FALSE, ledger |-> ledger,
              exc |-> Strategy(texts[k], v.source, v.target, k = failAt, now).exc]
        ELSE [ok |-> TRUE, exc |-> NoException, value |-> results,
              ledger |-> ledger \o results]

Min(a, b) == IF a < b THEN a ELSE b

\* 4.3: recent(limit): up to `limit` most recent entries, newest first, the
\* limit clamped to the hard ceiling; never mutates the ledger
Recent(ledger, limit) ==
    LET n == Min(Min(limit, LedgerCeiling), Len(ledger))
    IN  [i \in 1..n |-> ledger[Len(ledger) + 1 - i]]

-----------------------------------------------------------------------------
(* The boundary: helpers of the handlers of src/app.py                      *)

\* `if not translator`
NotTranslator(tr) == tr = "None"

\* timestamp.isoformat()
isoformat(t) == <<"T", t>>

\* variant: a single catch-all clause
ExceptClauses_CatchAll(exc, generic) == HTTPException(500, <<generic>>)

\* the `except ValueError` / `except Exception` clauses of translate_text and
\* batch_translate; `generic` is the fixed detail of the second clause
ExceptClauses(exc, generic) ==
    IF IsValueError(exc)
    THEN HTTPException(400, Str(exc))
    ELSE HTTPException(500, <<generic>>)

\* the single `except Exception` clause of get_translation_history
HistoryExceptClause(exc) == HTTPException(500, <<"Failed to retrieve history">>)

\* variant: the failure is swallowed and the partial value returned
Outcome_Swallow(body, mapped) ==
    [kind |-> "return", status_code |-> 200, detail |-> <<>>, content |-> body.value]

\* what a handler hands to the framework: its return value, or the
\* HTTPException its except clause raised
Outcome(body, mapped) ==
    IF body.raised = NoException
    THEN [kind |-> "return", status_code |-> 200, detail |-> <<>>, content |-> body.value]
    ELSE [kind |-> "HTTPException", status_code |-> mapped.status_code,
          detail |-> mapped.detail, content |-> <<>>]

\* the fields copied out of a TranslationResult (app.py:106-114, 146-154)
TranslationResponse(result) ==
    [original_text |-> result.original_text,
     translated_text |-> result.translated_text,
     source_language |-> result.source_language,
     target_language |-> result.target_language,
     confidence_score |-> result.confidence_score,
     model_used |-> result.model_used,
     timestamp |-> isoformat(result.timestamp)]

\* the try body of translate_text
TranslateBody(tr, ledger, req, malfunction, now) ==
    IF NotTranslator(tr)
    THEN [raised |-> HTTPException(503, <<"Translator not initialized">>),
          calls |-> <<>>, ledger |-> ledger, tick |-> FALSE, value |-> <<>>]
    ELSE LET e == EngineTranslate(ledger, req.text, req.source_lang, req.target_lang,
                                  malfunction, now)
             call == [method |-> "translate", text |-> req.text,
                      source_lang |-> req.source_lang, target_lang |-> req.target_lang]
         IN  [raised |-> e.exc, calls |-> <<call>>, ledger |-> e.ledger, tick |-> e.ok,
              value |-> IF e.ok THEN TranslationResponse(e.value) ELSE <<>>]

\* variant: the ceiling is off by one
BatchTooLarge_OffByOne(texts) == Len(texts) > MaxBatch + 1

\* len(request.texts) > 100
BatchTooLarge(texts) == Len(texts) > MaxBatch

\* variant: the response is built back to front
ResponseData_Reversed(results) ==
    [i \in 1..Len(results) |-> TranslationResponse(results[Len(results) + 1 - i])]

\* the loop building response_data (app.py:143-155)
ResponseData(results) == [i \in 1..Len(results) |-> TranslationResponse(results[i])]

\* the try body of batch_translate
BatchBody(tr, ledger, req, failAt, now) ==
    IF NotTranslator(tr)
    THEN [raised |-> HTTPException(503, <<"Translator not initialized">>),
          calls |-> <<>>, ledger |-> ledger, tick |-> FALSE, value |-> <<>>]
    ELSE IF BatchTooLarge(req.texts)
    THEN [raised |-> HTTPException(400, <<"Maximum 100 texts per batch">>),
          calls |-> <<>>, ledger |-> ledger, tick |-> FALSE, value |-> <<>>]
    ELSE LET e == EngineBatch(ledger, req.texts, req.source_lang, req.target_lang,
                              failAt, now)
             call == [method |-> "batch_translate", texts |-> req.texts,
                      source_lang |-> req.source_lang, target_lang |-> req.target_lang]
             data == ResponseData(e.value)
         IN  [raised |-> e.exc, calls |-> <<call>>, ledger |-> e.ledger,
              tick |-> e.ok /\ req.texts # <<>>,
              value |-> IF e.ok THEN [translations |-> data, count |-> Len(data)]
                                ELSE <<>>]

\* variant: the limit is passed through unclamped
ClampLimit_None(limit) == limit

\* variant: one entry fewer is requested
ClampLimit_OneLess(limit) == IF limit > MaxLimit THEN MaxLimit ELSE limit - 1

\* if limit > 100: limit = 100
ClampLimit(limit) == IF limit > MaxLimit THEN MaxLimit ELSE limit

\* the try body of get_translation_history
HistoryBody(tr, ledger, req) ==
    IF NotTranslator(tr)
    THEN [raised |-> HTTPException(503, <<"Translator not initialized">>),
          calls |-> <<>>, ledger |-> ledger, tick |-> FALSE, value |-> <<>>]
    ELSE LET limit == ClampLimit(req.limit)
             h == Recent(ledger, limit)
         IN  [raised |-> NoException,
              calls |-> <<[method |-> "get_translation_history", limit |-> limit]>>,
              ledger |-> ledger, tick |-> FALSE,
              value |-> [history |-> h, count |-> Len(h)]]

\* templates.TemplateResponse("index.html", {... "error": error})
ErrorPage(error) ==
    [kind |-> "TemplateResponse", status_code |-> 200, name |-> "index.html",
     error |-> error, context |-> <<>>]

\* templates.TemplateResponse("index.html", {... the result's fields})
ResultPage(result) ==
    [kind |-> "TemplateResponse", status_code |-> 200, name |-> "index.html",
     error |-> <<>>,
     context |-> [original_text |-> result.original_text,
                  translated_text |-> result.translated_text,
                  source_lang |-> result.source_language,
                  target_lang |-> result.target_language,
                  confidence |-> result.confidence_score,
                  model_used |-> result.model_used]]

\* variant: the exception's message is left out of the page
WebExceptClause_NoMessage(exc) == ErrorPage(<<"Translation failed">>)

\* the `except Exception` clause of web_translate
WebExceptClause(exc) == ErrorPage(<<"Translation failed: ">> \o Str(exc))

\* a page that takes no input from the engine
Page(name) ==
    [kind |-> "TemplateResponse", status_code |-> 200, name |-> name,
     error |-> <<>>, context |-> <<>>]

\* variant: the global is bound before the constructor is known to return
StartupTranslator_Early(tr, constructed) == "HausaEnglishTranslator"

\* the assignment of startup_event: the global is bound only when the
\* constructor returned
StartupTranslator(tr, constructed) ==
    IF constructed THEN "HausaEnglishTranslator" ELSE tr

-----------------------------------------------------------------------------
(* State machine *)

Init ==
    /\ translator = "None"
    /\ started = FALSE
    /\ history = <<>>
    /\ clock = 0
    /\ request = NoRequest
    /\ engine_calls = <<>>
    /\ raised = NoException
    /\ fault = 0
    /\ response = NoResponse

\* @app.on_event("startup"): runs once, when the application starts
startup_event ==
    /\ ~started
    /\ \E constructed \in BOOLEAN :
        /\ translator' = StartupTranslator(translator, constructed)
        /\ raised' = IF constructed THEN NoException
                     ELSE [type |-> "Exception", status_code |-> 0,
                           detail |-> <<"engine construction failed">>]
        /\ response' = IF constructed THEN [kind |-> "return", status_code |-> 0]
                       ELSE [kind |-> "raise", status_code |-> 0]
    /\ started' = TRUE
    /\ request' = [op |-> "startup_event"]
    /\ engine_calls' = <<>>
    /\ fault' = 0
    /\ UNCHANGED <<history, clock>>

\* POST /translate
translate_text ==
    \E text \in Texts, pair \in LangPairs, malfunction \in BOOLEAN :
        LET req == [op |-> "translate_text", text |-> text,
                    source_lang |-> pair[1], target_lang |-> pair[2]]
            body == TranslateBody(translator, history, req, malfunction, clock + 1)
        IN  /\ body.tick => clock < MaxClock
            /\ request' = req
            /\ engine_calls' = body.calls
            /\ raised' = body.raised
            /\ fault' = IF malfunction THEN 1 ELSE 0
            /\ history' = body.ledger
            /\ clock' = IF body.tick THEN clock + 1 ELSE clock
            /\ response' = Outcome(body, ExceptClauses(body.raised, "Translation failed"))
            /\ UNCHANGED <<translator, started>>

\* POST /translate/batch
batch_translate ==
    \E texts \in BatchTexts, pair \in LangPairs, failAt \in FaultItems :
        LET req == [op |-> "batch_translate", texts |-> texts,
                    source_lang |-> pair[1], target_lang |-> pair[2]]
            body == BatchBody(translator, history, req, failAt, clock + 1)
        IN  /\ body.tick => clock < MaxClock
            /\ request' = req
            /\ engine_calls' = body.calls
            /\ raised' = body.raised
            /\ fault' = failAt
            /\ history' = body.ledger
            /\ clock' = IF body.tick THEN clock + 1 ELSE clock
            /\ response' = Outcome(body, ExceptClauses(body.raised, "Batch translation failed"))
            /\ UNCHANGED <<translator, started>>

\* GET /history
get_translation_history ==
    \E limit \in Limits :
        LET req == [op |-> "get_translation_history", limit |-> limit]
            body == HistoryBody(translator, history, req)
        IN  /\ request' = req
            /\ engine_calls' = body.calls
            /\ raised' = body.raised
            /\ fault' = 0
            /\ history' = body.ledger
            /\ response' = Outcome(body, HistoryExceptClause(body.raised))
            /\ UNCHANGED <<translator, started, clock>>

\* POST /web/translate
web_translate ==
    \E text \in Texts, pair \in LangPairs, malfunction \in BOOLEAN :
        LET req == [op |-> "web_translate", text |-> text,
                    source_lang |-> pair[1], target_lang |-> pair[2]]
            e == EngineTranslate(history, text, pair[1], pair[2], malfunction, clock + 1)
            call == [method |-> "translate", text |-> text,
                     source_lang |-> pair[1], target_lang |-> pair[2]]
        IN  /\ request' = req
            /\ fault' = IF malfunction THEN 1 ELSE 0
            /\ IF NotTranslator(translator)
               THEN /\ response' = ErrorPage(<<"Translator service is not available">>)
                    /\ engine_calls' = <<>>
                    /\ raised' = NoException
                    /\ UNCHANGED <<history, clock>>
               ELSE /\ e.ok => clock < MaxClock
                    /\ engine_calls' = <<call>>
                    /\ raised' = e.exc
                    /\ history' = e.ledger
                    /\ clock' = IF e.ok THEN clock + 1 ELSE clock
                    /\ response' = IF e.ok THEN ResultPage(e.value)
                                           ELSE WebExceptClause(e.exc)
            /\ UNCHANGED <<translator, started>>

\* GET /health
health_check ==
    /\ request' = [op |-> "health_check"]
    /\ engine_calls' = <<>>
    /\ raised' = NoException
    /\ fault' = 0
    /\ response' = [kind |-> "return", status_code |-> 200, detail |-> <<>>,
                    content |-> [status |-> "healthy", timestamp |-> isoformat(clock)]]
    /\ UNCHANGED <<translator, started, history, clock>>

\* GET /languages
get_supported_languages ==
    /\ request' = [op |-> "get_supported_languages"]
    /\ engine_calls' = <<>>
    /\ raised' = NoException
    /\ fault' = 0
    /\ response' = [kind |-> "return", status_code |-> 200, detail |-> <<>>,
                    content |-> [languages |->
                        <<[code |-> "en", name |-> "English", native_name |-> "English"],
                          [code |-> "ha", name |-> "Hausa", native_name |-> "Harshen Hausa"]>>]]
    /\ UNCHANGED <<translator, started, history, clock>>

\* GET /, GET /about, GET /api-docs
page_routes ==
    \E route \in {<<"read_root", "index.html">>, <<"about_page", "about.html">>,
                  <<"api_docs_page", "api_docs.html">>} :
        /\ request' = [op |-> route[1]]
        /\ engine_calls' = <<>>
        /\ raised' = NoException
        /\ fault' = 0
        /\ response' = Page(route[2])
        /\ UNCHANGED <<translator, started, history, clock>>

Next ==
    \/ startup_event
    \/ translate_text
    \/ batch_translate
    \/ get_translation_history
    \/ web_translate
    \/ health_check
    \/ get_supported_languages
    \/ page_routes

Spec == Init /\ [][Next]_vars

-----------------------------------------------------------------------------
(* Properties *)

Initialised == ~NotTranslator(translator)

ApiOps == {"translate_text", "batch_translate", "get_translation_history"}

RequestOps ==
    ApiOps \cup {"web_translate", "health_check", "get_supported_languages",
                 "read_root", "about_page", "api_docs_page"}

HasBlank(texts) == \E i \in 1..Len(texts) : IsBlank(texts[i])

\* C1: translate, batch_translate and get_history called while the engine is
\* not initialised answer 503 'Translator not initialized' (not 400 or 500)
\* and invoke no engine method.
C1_NotInitialisedIs503 ==
    (request.op \in ApiOps /\ ~Initialised) =>
        /\ response.kind = "HTTPException"
        /\ response.status_code = 503
        /\ response.detail = <<"Translator not initialized">>
        /\ engine_calls = <<>>

\* C2: with the engine initialised, batch_translate never delegates more than
\* 100 texts: above 100 the engine is not called at all, and up to 100
\* (exactly 100 and the empty list included) it is called exactly once with
\* the texts unchanged and in order.
C2_BatchCeilingBeforeDelegating ==
    (request.op = "batch_translate" /\ Initialised) =>
        /\ \A i \in 1..Len(engine_calls) : Len(engine_calls[i].texts) <= 100
        /\ Len(request.texts) > 100 => engine_calls = <<>>
        /\ Len(request.texts) <= 100 =>
              /\ Len(engine_calls) = 1
              /\ engine_calls[1].method = "batch_translate"
              /\ engine_calls[1].texts = request.texts

C2_Witness ==
    /\ request.op = "batch_translate"
    /\ Initialised
    /\ Len(request.texts) = 100
    /\ Len(engine_calls) = 1

\* C3: with the engine initialised, a batch of more than 100 texts is
\* answered 400 'Maximum 100 texts per batch', not 500.
C3_OversizedBatchIs400 ==
    (request.op = "batch_translate" /\ Initialised /\ Len(request.texts) > 100) =>
        /\ response.kind = "HTTPException"
        /\ response.status_code = 400
        /\ response.detail = <<"Maximum 100 texts per batch">>

\* C4: with the engine initialised, for every integer limit the engine is
\* asked for min(limit, 100) entries, so never for more than 100, and the
\* response's history list and count never exceed 100.
C4_HistoryLimitClamped ==
    (request.op = "get_translation_history" /\ Initialised) =>
        /\ Len(engine_calls) = 1
        /\ engine_calls[1].method = "get_translation_history"
        /\ engine_calls[1].limit = Min(request.limit, 100)
        /\ engine_calls[1].limit <= 100
        /\ response.kind = "return"
        /\ response.content.count = Len(response.content.history)
        /\ response.content.count <= 100

C4_Witness ==
    /\ request.op = "get_translation_history"
    /\ Initialised
    /\ request.limit > 100
    /\ Len(history) > 100
    /\ response.content.count = 100

\* C5: with the engine initialised, for translate and batch_translate a
\* ValueError of the engine call becomes 400 with the error's message, any
\* other exception becomes 500 with the handler's fixed detail, no exception
\* leaves the handler unmapped, and 200 is produced only when the engine call
\* returned normally.
C5_EngineErrorsMapped ==
    (request.op \in {"translate_text", "batch_translate"} /\ Initialised
        /\ engine_calls # <<>>) =>
        /\ raised.type = "ValueError" =>
              /\ response.kind = "HTTPException"
              /\ response.status_code = 400
              /\ response.detail = raised.detail
        /\ raised.type \notin {"ValueError", "none"} =>
              /\ response.kind = "HTTPException"
              /\ response.status_code = 500
              /\ response.detail = IF request.op = "translate_text"
                                   THEN <<"Translation failed">>
                                   ELSE <<"Batch translation failed">>
        /\ response.kind \in {"return", "HTTPException"}
        /\ (response.kind = "return") = (raised.type = "none")
        /\ (response.status_code = 200) = (raised.type = "none")

C5_Witness ==
    /\ request.op = "batch_translate"
    /\ Initialised
    /\ raised.type = "TranslationFailedError"
    /\ response.status_code = 500

\* C6: for a batch [t1..tn], n <= 100, on which the engine succeeds, the
\* response has exactly n translations, the i-th with original_text ti, and
\* count n.
C6_BatchOrderPreserved ==
    (request.op = "batch_translate" /\ response.kind = "return") =>
        /\ Len(request.texts) <= 100
        /\ Len(response.content.translations) = Len(request.texts)
        /\ \A i \in 1..Len(request.texts) :
              response.content.translations[i].original_text = request.texts[i]
        /\ response.content.count = Len(request.texts)

C6_Witness ==
    /\ request.op = "batch_translate"
    /\ response.kind = "return"
    /\ request.texts = <<"xyz", "hello">>
    /\ response.content.count = 2

\* item i of the last batch request fails: it is blank, or the strategy
\* malfunctioned on it
ItemFails(i) == request.texts[i] = "" \/ i = fault

\* C7: a batch in which any item fails (a blank text, or a strategy failure)
\* fails as a whole: one failure response carrying no translations, and the
\* error it reports is that of the first failing item in input order (a
\* blank text: 400 with the engine's message; a strategy failure: 500 with
\* the fixed detail), an invalid language pair being met before any item;
\* items and error markers are never mixed.
C7_BatchFailFast ==
    (request.op = "batch_translate"
        /\ \E i \in 1..Len(request.texts) : ItemFails(i)) =>
        /\ response.kind = "HTTPException"
        /\ response.status_code \in {400, 500}
        /\ response.content = <<>>
        /\ (engine_calls # <<>>
                /\ ~validate(request.source_lang, request.target_lang).ok) =>
              /\ raised.type = "ValueError"
              /\ raised.detail[1] = "Unsupported language: "
              /\ response.status_code = 400
              /\ response.detail = raised.detail
        /\ (engine_calls # <<>>
                /\ validate(request.source_lang, request.target_lang).ok) =>
              \E k \in 1..Len(request.texts) :
                  /\ ItemFails(k)
                  /\ \A j \in 1..(k - 1) : ~ItemFails(j)
                  /\ IF request.texts[k] = ""
                     THEN /\ raised = ValueError(<<"Text cannot be empty">>)
                          /\ response.status_code = 400
                          /\ response.detail = <<"Text cannot be empty">>
                     ELSE /\ raised = TranslationFailedError(<<"Strategy failure">>)
                          /\ response.status_code = 500
                          /\ response.detail = <<"Batch translation failed">>

\* the strategy fails on item 1 and item 2 is blank: the first error, not
\* the blank item's, is the one reported
C7_Witness ==
    /\ request.op = "batch_translate"
    /\ request.texts = <<"hello", "">>
    /\ fault = 1
    /\ engine_calls # <<>>
    /\ validate(request.source_lang, request.target_lang).ok
    /\ raised = TranslationFailedError(<<"Strategy failure">>)
    /\ response.status_code = 500

\* every recorded entry came from a call that recorded exactly one entry,
\* that is from a translate call
OnlyTranslateWrites == clock = Len(history)

\* C8: after N successful sequential translate calls (no other writers)
\* get_history with limit N returns those N results, last call first, and
\* get_history itself never changes the recorded entries or their order.
C8_HistoryOrdering ==
    /\ []((request.op = "get_translation_history" /\ Initialised
              /\ OnlyTranslateWrites /\ request.limit = Len(history)) =>
            /\ response.kind = "return"
            /\ response.content.count = Len(history)
            /\ Len(response.content.history) = Len(history)
            /\ \A i \in 1..Len(history) :
                  /\ response.content.history[i].timestamp = Len(history) + 1 - i
                  /\ response.content.history[i] = history[Len(history) + 1 - i])
    /\ [][request'.op = "get_translation_history" => history' = history]_vars

C8_Witness ==
    /\ request.op = "get_translation_history"
    /\ Initialised
    /\ OnlyTranslateWrites
    /\ Len(history) = MaxClock
    /\ request.limit = Len(history)
    /\ response.content.count = MaxClock

\* C9: web_translate never raises: not initialised gives the index page with
\* 'Translator service is not available' and no engine call; an engine
\* exception gives the index page with 'Translation failed: <message>'; only
\* a normal return gives the index page carrying the result's fields.
C9_WebTranslateNeverRaises ==
    (request.op = "web_translate") =>
        /\ response.kind = "TemplateResponse"
        /\ response.name = "index.html"
        /\ ~Initialised =>
              /\ response.error = <<"Translator service is not available">>
              /\ engine_calls = <<>>
        /\ (Initialised /\ raised.type # "none") =>
              response.error = <<"Translation failed: ">> \o raised.detail
        /\ (response.error = <<>>) = (Initialised /\ raised.type = "none")
        /\ (Initialised /\ raised.type = "none") =>
              LET result == history[Len(history)]
              IN  /\ result.original_text = request.text
                  /\ response.context.original_text = result.original_text
                  /\ response.context.translated_text = result.translated_text
                  /\ response.context.source_lang = result.source_language
                  /\ response.context.target_lang = result.target_language
                  /\ response.context.confidence = result.confidence_score
                  /\ response.context.model_used = result.model_used

C9_Witness ==
    /\ request.op = "web_translate"
    /\ Initialised
    /\ raised.type = "ValueError"
    /\ response.error = <<"Translation failed: ", "Text cannot be empty">>

\* the outcome of a handler's `if not translator` branch
NotInitialisedOutcome ==
    \/ raised = HTTPException(503, <<"Translator not initialized">>)
    \/ /\ response.kind = "TemplateResponse"
       /\ response.error = <<"Translator service is not available">>

\* C10: translator is None initially and is assigned only by startup_event;
\* when construction raises startup_event re-raises and translator stays
\* None; once set, no request resets or replaces it, and no request is then
\* answered with the not-initialised outcome.
C10_TranslatorLifecycle ==
    /\ translator = "None"
    /\ [][/\ translator' # translator =>
                (request'.op = "startup_event" /\ response'.kind = "return")
          /\ (request'.op = "startup_event" /\ raised'.type # "none") =>
                (response'.kind = "raise" /\ translator' = "None")
          /\ translator # "None" => translator' = translator
          /\ (translator # "None" /\ request'.op \in RequestOps) =>
                ~NotInitialisedOutcome']_vars

C10_Witness ==
    /\ Initialised
    /\ request.op = "translate_text"
    /\ response.kind = "return"

====
